---- MODULE Spec2Model ----
(***************************************************************************)
(* A model of src/dashboard.py, the Superstore dashboard script.  One run  *)
(* of the script is a linear pass: load, schema validation, date clean-up, *)
(* date inputs, range check and date filter, the three cascading sidebar   *)
(* multiselects, the final filtered frame, the Category and Region         *)
(* group-by sums and the month roll-up.                                    *)
(*                                                                         *)
(* A data frame is a sequence of rows; a row is a function from column     *)
(* names to cells.  Timestamps are integers (hours on a 12 x 31 x 24 grid, *)
(* monotone in calendar order).  Text that the script orders by its        *)
(* characters (the "%Y-%b" month label) is a sequence of character codes.  *)
(***************************************************************************)
EXTENDS Integers, Sequences, FiniteSets, TLC

VARIABLES
    pc,             \* the position of the run in the script
    file,           \* the rows read from the uploaded or bundled file
    cols,           \* df.columns
    df,             \* df, reassigned by the clean-up and the date mask
    missing,        \* missing (required columns the file lacks)
    alert,          \* what st.error or st.warning has shown
    startdate,      \* startdate
    enddate,        \* enddate
    date1,          \* date1
    date2,          \* date2
    regionOptions,  \* the options of the Region multiselect
    region,         \* region
    df2,            \* df2
    stateOptions,   \* the options of the State multiselect
    state,          \* state
    df3,            \* df3
    cityOptions,    \* the options of the City multiselect
    city,           \* city
    filtered_df,    \* filtered_df
    category_df,    \* category_df
    region_sum,     \* region_sum
    linechart       \* linechart

vars == <<pc, file, cols, df, missing, alert, startdate, enddate, date1, date2,
          regionOptions, region, df2, stateOptions, state, df3, cityOptions, city,
          filtered_df, category_df, region_sum, linechart>>

-----------------------------------------------------------------------------
(* Bounds of the model *)

MaxRows == 2

-----------------------------------------------------------------------------
(* Cells *)

\* a missing categorical cell; pandas reads the text "NaN" as missing
NaN == "NaN"

\* a missing timestamp
NaT == -1

\* a cell of the file's Order Date column that does not parse as a date
BadDate == -2

Mk(y, m, d, h) == ((y * 12 + (m - 1)) * 31 + (d - 1)) * 24 + h

TsYear(t) == t \div (12 * 31 * 24)

TsMonth(t) == ((t \div (31 * 24)) % 12) + 1

\* st.date_input keeps the calendar day; pd.to_datetime of a day is its midnight
DayOf(t) == t - (t % 24)

\* the midnight of the following day; NaT past the end of the month
NextDay(t) == IF ((t \div 24) % 31) = 30 THEN NaT ELSE DayOf(t) + 24

\* pd.to_datetime(..., errors="coerce") on one cell
ToDatetime(c) == IF c >= 0 THEN c ELSE NaT

-----------------------------------------------------------------------------
(* Column names and value universes, each listed in sorted() order *)

required_cols == {"Order Date", "Region", "State", "City", "Category", "Sales"}

SortedNames == <<"CA", "Category", "City", "East", "Furniture", "LA", "NY", "NYC",
                 "Order Date", "Region", "Sales", "State", "Tech", "West">>

AllCols == required_cols \cup {"Profit"}

RECURSIVE SeqToSet(_)
SeqToSet(s) == IF s = <<>> THEN {} ELSE {Head(s)} \cup SeqToSet(Tail(s))

\* sorted(...) of a set of names
Sorted(S) == SelectSeq(SortedNames, LAMBDA x : x \in S)

-----------------------------------------------------------------------------
(* Data frame operations *)

Row(d, rg, st, ct, cat, sales) ==
    [c \in required_cols |->
        CASE c = "Order Date" -> d
          [] c = "Region" -> rg
          [] c = "State" -> st
          [] c = "City" -> ct
          [] c = "Category" -> cat
          [] OTHER -> sales]

\* the rows of a frame restricted to the columns of a file
Project(frame, cs) ==
    [i \in DOMAIN frame |->
        [c \in cs |-> IF c \in DOMAIN frame[i] THEN frame[i][c] ELSE 0]]

\* df["Order Date"] = pd.to_datetime(df["Order Date"], errors="coerce")
CoerceOrderDate(frame) ==
    [i \in DOMAIN frame |->
        [frame[i] EXCEPT !["Order Date"] = ToDatetime(@)]]

\* df.dropna(subset=[col]) on a timestamp column
DropNaT(frame, col) == SelectSeq(frame, LAMBDA r : r[col] # NaT)

\* Series.isin(values)
Isin(v, values) == v \in values

\* df[col].dropna().unique()
DropnaUnique(frame, col) == {frame[i][col] : i \in DOMAIN frame} \ {NaN}

\* Series.min() and Series.max() of a timestamp column; NaT on an empty column
SeriesMin(frame, col) ==
    IF frame = <<>> THEN NaT
    ELSE CHOOSE t \in {frame[i][col] : i \in DOMAIN frame} :
            \A j \in DOMAIN frame : t <= frame[j][col]

SeriesMax(frame, col) ==
    IF frame = <<>> THEN NaT
    ELSE CHOOSE t \in {frame[i][col] : i \in DOMAIN frame} :
            \A j \in DOMAIN frame : t >= frame[j][col]

RECURSIVE SumSales(_)
SumSales(frame) ==
    IF frame = <<>> THEN 0 ELSE Head(frame)["Sales"] + SumSales(Tail(frame))

\* frame.groupby(by=[col], as_index=False)["Sales"].sum(): keys sorted, rows
\* whose key is missing left out (groupby's default dropna=True)
GroupKeys(frame, col) == Sorted({frame[i][col] : i \in DOMAIN frame} \ {NaN})

GroupBySum(frame, col) ==
    LET keys == GroupKeys(frame, col)
    IN  [k \in DOMAIN keys |->
            [key |-> keys[k],
             Sales |-> SumSales(SelectSeq(frame, LAMBDA r : r[col] = keys[k]))]]

-----------------------------------------------------------------------------
(* The month roll-up: Period("M") and its "%Y-%b" label *)

\* Series.dt.to_period("M") on one timestamp
ToPeriod(t) == [year |-> TsYear(t), month |-> TsMonth(t)]

\* the character codes of the "%b" month abbreviations Jan .. Dec
MonthAbbr ==
    << <<74, 97, 110>>, <<70, 101, 98>>, <<77, 97, 114>>, <<65, 112, 114>>,
       <<77, 97, 121>>, <<74, 117, 110>>, <<74, 117, 108>>, <<65, 117, 103>>,
       <<83, 101, 112>>, <<79, 99, 116>>, <<78, 111, 118>>, <<68, 101, 99>> >>

\* the character codes of "%Y": four decimal digits
YearDigits(y) ==
    << 48 + ((y \div 1000) % 10), 48 + ((y \div 100) % 10),
       48 + ((y \div 10) % 10), 48 + (y % 10) >>

\* a label that leaves the year out ("%b")
StrftimeMonthOnly(p) == MonthAbbr[p.month]

\* Period.strftime("%Y-%b"), e.g. "2024-Jan"
Strftime(p) == YearDigits(p.year) \o <<45>> \o MonthAbbr[p.month]

\* Python's str.__lt__: order by the first differing character, a proper
\* prefix first
StrLess(a, b) ==
    \E i \in 1..(Len(a) + 1) :
        /\ \A j \in 1..(i - 1) : j <= Len(b) /\ a[j] = b[j]
        /\ i <= Len(b)
        /\ (i > Len(a) \/ a[i] < b[i])

\* the keys of a groupby on text, in groupby's sorted order
RECURSIVE SortStr(_)
SortStr(S) ==
    IF S = {} THEN <<>>
    ELSE LET least == CHOOSE a \in S : \A b \in S \ {a} : StrLess(a, b)
         IN  <<least>> \o SortStr(S \ {least})

\* groupby(month_year.dt.strftime("%Y-%b"))["Sales"].sum().reset_index()
\*   .rename(columns={"month_year": "Month"})
MonthRollup(frame) ==
    LET label(r) == Strftime(r["month_year"])
        keys == SortStr({label(frame[i]) : i \in DOMAIN frame})
    IN  [k \in DOMAIN keys |->
            [Month |-> keys[k],
             Sales |-> SumSales(SelectSeq(frame, LAMBDA r : label(r) = keys[k]))]]

\* frame["month_year"] = frame["Order Date"].dt.to_period("M")
WithMonthYear(frame) ==
    [i \in DOMAIN frame |->
        [c \in (DOMAIN frame[i]) \cup {"month_year"} |->
            IF c = "month_year" THEN ToPeriod(frame[i]["Order Date"])
            ELSE frame[i][c]]]

-----------------------------------------------------------------------------
(* Validation, the date mask and the cascading frames *)

\* the set difference taken the wrong way round
MissingColsReversed(cs) == cs \ required_cols

\* missing = required_cols - set(df.columns)
MissingCols(cs) == required_cols \ cs

\* the comparison taken the wrong way round
InvalidRangeReversed(d1, d2) == d2 > d1

\* if date1 > date2
InvalidRange(d1, d2) == d1 > d2

\* a mask that leaves the end bound out
DateMaskExclusiveEnd(frame, d1, d2) ==
    SelectSeq(frame, LAMBDA r : r["Order Date"] >= d1 /\ r["Order Date"] < d2)

\* df[(df["Order Date"] >= date1) & (df["Order Date"] <= date2)]
DateMask(frame, d1, d2) ==
    SelectSeq(frame, LAMBDA r : r["Order Date"] >= d1 /\ r["Order Date"] <= d2)

\* the candidate list of a multiselect
Options(frame, col) == Sorted(DropnaUnique(frame, col))

\* df2 left unfiltered
RegionFrameUnfiltered(d, rg) == d

\* df2 = df if not region else df[df["Region"].isin(region)]
RegionFrame(d, rg) ==
    IF rg = {} THEN d ELSE SelectSeq(d, LAMBDA r : Isin(r["Region"], rg))

\* df3 left unfiltered
StateFrameUnfiltered(d2, st) == d2

\* df3 = df2 if not state else df2[df2["State"].isin(state)]
StateFrame(d2, st) ==
    IF st = {} THEN d2 ELSE SelectSeq(d2, LAMBDA r : Isin(r["State"], st))

-----------------------------------------------------------------------------
(* The "Final filtered df" branch cascade *)

\* the cascade with its state-and-city branch reading df instead of df3
FinalFilteredFromDf(d, d3, rg, st, ct) ==
    IF rg = {} /\ st = {} /\ ct = {} THEN d
    ELSE IF st = {} /\ ct = {} THEN
        SelectSeq(d, LAMBDA r : Isin(r["Region"], rg))
    ELSE IF rg = {} /\ ct = {} THEN
        SelectSeq(d, LAMBDA r : Isin(r["State"], st))
    ELSE IF st # {} /\ ct # {} THEN
        SelectSeq(d, LAMBDA r : Isin(r["State"], st) /\ Isin(r["City"], ct))
    ELSE IF rg # {} /\ ct # {} THEN
        SelectSeq(d3, LAMBDA r : Isin(r["Region"], rg) /\ Isin(r["City"], ct))
    ELSE IF rg # {} /\ st # {} THEN
        SelectSeq(d3, LAMBDA r : Isin(r["Region"], rg) /\ Isin(r["State"], st))
    ELSE
        SelectSeq(d3, LAMBDA r : Isin(r["City"], ct))

FinalFiltered(d, d3, rg, st, ct) ==
    IF rg = {} /\ st = {} /\ ct = {} THEN d
    ELSE IF st = {} /\ ct = {} THEN
        SelectSeq(d, LAMBDA r : Isin(r["Region"], rg))
    ELSE IF rg = {} /\ ct = {} THEN
        SelectSeq(d, LAMBDA r : Isin(r["State"], st))
    ELSE IF st # {} /\ ct # {} THEN
        SelectSeq(d3, LAMBDA r : Isin(r["State"], st) /\ Isin(r["City"], ct))
    ELSE IF rg # {} /\ ct # {} THEN
        SelectSeq(d3, LAMBDA r : Isin(r["Region"], rg) /\ Isin(r["City"], ct))
    ELSE IF rg # {} /\ st # {} THEN
        SelectSeq(d3, LAMBDA r : Isin(r["Region"], rg) /\ Isin(r["State"], st))
    ELSE IF ct # {} THEN
        SelectSeq(d3, LAMBDA r : Isin(r["City"], ct))
    ELSE
        SelectSeq(d3, LAMBDA r : /\ Isin(r["Region"], rg)
                                 /\ Isin(r["State"], st)
                                 /\ Isin(r["City"], ct))

-----------------------------------------------------------------------------
(* Inputs *)

\* the calendar days the user may type into a date input besides its default
Days == {Mk(2024, 1, 14, 0), Mk(2024, 1, 15, 0), Mk(2024, 1, 16, 0)}

DatePicks(default) == Days \cup (IF default = NaT THEN {} ELSE {DayOf(default)})

\* a file whose schema is examined: one row, every column
Sample == <<Row(Mk(2024, 1, 15, 0), "East", "NY", "NYC", "Furniture", 100)>>

Frames(pool) == UNION {[1..n -> pool] : n \in 0..MaxRows}

NoAlert == [kind |-> "none", cols |-> <<>>]

InitWith(pool) ==
    /\ pc = "load"
    /\ \/ cols = required_cols /\ file \in Frames(pool)
       \/ /\ cols \in (SUBSET AllCols) \ {required_cols}
          /\ file = Project(Sample, cols)
    /\ df = <<>>
    /\ missing = {}
    /\ alert = NoAlert
    /\ startdate = NaT /\ enddate = NaT
    /\ date1 = NaT /\ date2 = NaT
    /\ regionOptions = <<>> /\ region = {}
    /\ stateOptions = <<>> /\ state = {}
    /\ cityOptions = <<>> /\ city = {}
    /\ df2 = <<>> /\ df3 = <<>>
    /\ filtered_df = <<>>
    /\ category_df = <<>> /\ region_sum = <<>> /\ linechart = <<>>

-----------------------------------------------------------------------------
(* The steps of one run of the script *)

\* load_uploaded_file / load_fallback_file: read, then coerce Order Date
Load ==
    /\ pc = "load"
    /\ df' = IF "Order Date" \in cols
             THEN CoerceOrderDate(file)
             ELSE file
    /\ pc' = "validate"
    /\ UNCHANGED <<file, cols, missing, alert, startdate, enddate, date1, date2,
                   regionOptions, region, df2, stateOptions, state, df3,
                   cityOptions, city, filtered_df, category_df, region_sum,
                   linechart>>

\* Basic validations: a missing required column is reported and the run stops
Validate ==
    /\ pc = "validate"
    /\ missing' = MissingCols(cols)
    /\ IF missing' # {}
       THEN /\ alert' = [kind |-> "error", cols |-> Sorted(missing')]
            /\ pc' = "stopped"
       ELSE /\ alert' = alert
            /\ pc' = "clean"
    /\ UNCHANGED <<file, cols, df, startdate, enddate, date1, date2,
                   regionOptions, region, df2, stateOptions, state, df3,
                   cityOptions, city, filtered_df, category_df, region_sum,
                   linechart>>

\* Clean up and establish min/max dates
CleanDates ==
    /\ pc = "clean"
    /\ df' = DropNaT(CoerceOrderDate(df), "Order Date")
    /\ startdate' = SeriesMin(df', "Order Date")
    /\ enddate' = SeriesMax(df', "Order Date")
    /\ pc' = "dates"
    /\ UNCHANGED <<file, cols, missing, alert, date1, date2,
                   regionOptions, region, df2, stateOptions, state, df3,
                   cityOptions, city, filtered_df, category_df, region_sum,
                   linechart>>

\* the two st.date_input widgets
DateInput ==
    /\ pc = "dates"
    /\ date1' \in DatePicks(startdate)
    /\ date2' \in DatePicks(enddate)
    /\ pc' = "range"
    /\ UNCHANGED <<file, cols, df, missing, alert, startdate, enddate,
                   regionOptions, region, df2, stateOptions, state, df3,
                   cityOptions, city, filtered_df, category_df, region_sum,
                   linechart>>

\* no row has a date: the default handed to st.date_input is NaT, which the
\* widget may reject with an exception
DateInputFails ==
    /\ pc = "dates"
    /\ startdate = NaT
    /\ pc' = "crashed"
    /\ UNCHANGED <<file, cols, df, missing, alert, startdate, enddate, date1,
                   date2, regionOptions, region, df2, stateOptions, state, df3,
                   cityOptions, city, filtered_df, category_df, region_sum,
                   linechart>>

\* Ensure valid range, then the inclusive date mask
DateFilter ==
    /\ pc = "range"
    /\ IF InvalidRange(date1, date2)
       THEN /\ alert' = [kind |-> "warning", cols |-> <<>>]
            /\ pc' = "stopped"
            /\ df' = df
       ELSE /\ alert' = alert
            /\ df' = DateMask(df, date1, date2)
            /\ pc' = "region"
    /\ UNCHANGED <<file, cols, missing, startdate, enddate, date1, date2,
                   regionOptions, region, df2, stateOptions, state, df3,
                   cityOptions, city, filtered_df, category_df, region_sum,
                   linechart>>

\* Region multiselect and df2
PickRegion ==
    /\ pc = "region"
    /\ regionOptions' = Options(df, "Region")
    /\ region' \in SUBSET SeqToSet(regionOptions')
    /\ df2' = RegionFrame(df, region')
    /\ pc' = "state"
    /\ UNCHANGED <<file, cols, df, missing, alert, startdate, enddate, date1,
                   date2, stateOptions, state, df3, cityOptions, city,
                   filtered_df, category_df, region_sum, linechart>>

\* State multiselect and df3
PickState ==
    /\ pc = "state"
    /\ stateOptions' = Options(df2, "State")
    /\ state' \in SUBSET SeqToSet(stateOptions')
    /\ df3' = StateFrame(df2, state')
    /\ pc' = "city"
    /\ UNCHANGED <<file, cols, df, missing, alert, startdate, enddate, date1,
                   date2, regionOptions, region, df2, cityOptions, city,
                   filtered_df, category_df, region_sum, linechart>>

\* City multiselect
PickCity ==
    /\ pc = "city"
    /\ cityOptions' = Options(df3, "City")
    /\ city' \in SUBSET SeqToSet(cityOptions')
    /\ pc' = "final"
    /\ UNCHANGED <<file, cols, df, missing, alert, startdate, enddate, date1,
                   date2, regionOptions, region, df2, stateOptions, state, df3,
                   filtered_df, category_df, region_sum, linechart>>

\* Final filtered df
FinalFilter ==
    /\ pc = "final"
    /\ filtered_df' = FinalFiltered(df, df3, region, state, city)
    /\ pc' = "charts"
    /\ UNCHANGED <<file, cols, df, missing, alert, startdate, enddate, date1,
                   date2, regionOptions, region, df2, stateOptions, state, df3,
                   cityOptions, city, category_df, region_sum, linechart>>

\* Charts and Time series: the two group-by sums, the month_year column (added
\* in place, so also to df, df2 and df3 when filtered_df is that same frame)
\* and the month roll-up
Charts ==
    /\ pc = "charts"
    /\ category_df' = GroupBySum(filtered_df, "Category")
    /\ region_sum' = GroupBySum(filtered_df, "Region")
    /\ filtered_df' = WithMonthYear(filtered_df)
    /\ IF region = {} /\ state = {} /\ city = {}
       THEN df' = filtered_df' /\ df2' = filtered_df' /\ df3' = filtered_df'
       ELSE UNCHANGED <<df, df2, df3>>
    /\ linechart' = MonthRollup(filtered_df')
    /\ pc' = "done"
    /\ UNCHANGED <<file, cols, missing, alert, startdate, enddate, date1, date2,
                   regionOptions, region, stateOptions, state, cityOptions, city>>

Next ==
    \/ Load
    \/ Validate
    \/ CleanDates
    \/ DateInput
    \/ DateInputFails
    \/ DateFilter
    \/ PickRegion
    \/ PickState
    \/ PickCity
    \/ FinalFilter
    \/ Charts

-----------------------------------------------------------------------------
(* Specifications: the same run over three families of files *)

\* rows that differ in Region, State and City
FilterRows ==
    {Row(Mk(2024, 1, 15, 0), rg, st, ct, "Tech", 100) :
        rg \in {"East", "West", NaN}, st \in {"NY", "CA", NaN}, ct \in {"NYC", NaN}}
    \cup {Row(Mk(2024, 1, 15, 0), "West", "CA", "LA", "Tech", 100),
          Row(Mk(2024, 1, 15, 0), "East", "NY", "LA", "Tech", 100),
          Row(Mk(2024, 1, 15, 0), NaN, "CA", "LA", "Tech", 100)}

\* rows that differ in the Order Date cell: unparseable, empty, midnight or not
DateRows ==
    {Row(d, "East", "NY", "NYC", "Tech", 100) :
        d \in {BadDate, NaT, Mk(2024, 1, 14, 0), Mk(2024, 1, 15, 0),
               Mk(2024, 1, 15, 13), Mk(2024, 1, 16, 0), Mk(2024, 1, 17, 9)}}

\* rows that differ in month, Category, Region and Sales
SalesRows ==
    {Row(d, rg, "NY", "NYC", cat, 100) :
        d \in {Mk(2024, 1, 15, 0), Mk(2024, 2, 10, 0), Mk(2025, 1, 5, 0)},
        rg \in {"East", NaN}, cat \in {"Furniture", "Tech", NaN}}
    \cup {Row(Mk(2024, 1, 15, 0), "West", "CA", "LA", cat, 50) :
            cat \in {"Furniture", "Tech"}}

InitFilter == InitWith(FilterRows)

InitDate == InitWith(DateRows)

InitSales == InitWith(SalesRows)

SpecFilter == InitFilter /\ [][Next]_vars

SpecDate == InitDate /\ [][Next]_vars

SpecSales == InitSales /\ [][Next]_vars

-----------------------------------------------------------------------------
(* Claims about the Hierarchical Filter Engine, checked under SpecFilter *)

\* the single conjunctive predicate of the reference definition: a dimension is
\* tested only when its selection is non-empty, and a missing cell never matches
Matches(r, rg, st, ct) ==
    /\ rg = {} \/ (r["Region"] # NaN /\ r["Region"] \in rg)
    /\ st = {} \/ (r["State"] # NaN /\ r["State"] \in st)
    /\ ct = {} \/ (r["City"] # NaN /\ r["City"] \in ct)

\* C1: once the branch cascade has run, filtered_df holds exactly the rows of
\* the date-reduced df that satisfy (R empty or region in R) and (S empty or
\* state in S) and (C empty or city in C), in df's order; a missing region,
\* state or city never matches a non-empty selection.
C1_CascadeIsConjunction ==
    pc = "charts" =>
        filtered_df = SelectSeq(df, LAMBDA r : Matches(r, region, state, city))

\* C1's case: region and city chosen, state left empty, and a row of the chosen
\* region is dropped because its city is missing
C1_Witness ==
    /\ pc = "charts"
    /\ region # {} /\ state = {} /\ city # {}
    /\ filtered_df # <<>>
    /\ \E i \in DOMAIN df : df[i]["Region"] \in region /\ df[i]["City"] = NaN

\* C7: the Region candidates are the distinct non-missing regions of the
\* date-reduced df, the State candidates those of the rows matching the Region
\* selection only, the City candidates those of the rows matching the Region
\* and State selections; no list repeats a value.  The lists are fixed by df,
\* region and state alone in every state, whatever city is, and the picks of a
\* later dimension leave the earlier lists as they were.
C7_Candidates ==
    /\ [](pc \in {"final", "charts"} =>
            /\ SeqToSet(regionOptions) =
                  {df[i]["Region"] : i \in DOMAIN df} \ {NaN}
            /\ SeqToSet(stateOptions) =
                  {df[i]["State"] :
                      i \in {j \in DOMAIN df : Matches(df[j], region, {}, {})}}
                  \ {NaN}
            /\ SeqToSet(cityOptions) =
                  {df[i]["City"] :
                      i \in {j \in DOMAIN df : Matches(df[j], region, state, {})}}
                  \ {NaN}
            /\ Len(regionOptions) = Cardinality(SeqToSet(regionOptions))
            /\ Len(stateOptions) = Cardinality(SeqToSet(stateOptions))
            /\ Len(cityOptions) = Cardinality(SeqToSet(cityOptions)))
    /\ [][/\ pc = "state" => regionOptions' = regionOptions
          /\ pc = "city" => (regionOptions' = regionOptions /\
                             stateOptions' = stateOptions)]_vars

\* C7's case: the Region pick has narrowed the State list and the State pick
\* has narrowed the City list
C7_Witness ==
    /\ pc = "final"
    /\ region # {} /\ state # {} /\ city # {}
    /\ Len(stateOptions) < Cardinality({df[i]["State"] : i \in DOMAIN df} \ {NaN})
    /\ Len(cityOptions) < Cardinality({df[i]["City"] : i \in DOMAIN df} \ {NaN})

\* C9: selections taken from the lists offered in the run, at least one of them
\* non-empty, never give an empty filtered_df.
C9_OfferedChoicesNonEmpty ==
    (/\ pc = "charts"
     /\ region \subseteq SeqToSet(regionOptions)
     /\ state \subseteq SeqToSet(stateOptions)
     /\ city \subseteq SeqToSet(cityOptions)
     /\ (region # {} \/ state # {} \/ city # {}))
    => filtered_df # <<>>

\* C9's case: all three dimensions chosen and the result is a proper part of df
C9_Witness ==
    /\ pc = "charts"
    /\ region # {} /\ state # {} /\ city # {}
    /\ filtered_df # <<>>
    /\ Len(filtered_df) < Len(df)

-----------------------------------------------------------------------------
(* Claims about schema validation and the Date-Range Reducer, checked under *)
(* SpecDate                                                                 *)

\* the run has passed the range check and the date mask
Reduced == pc \in {"region", "state", "city", "final", "charts"}

\* C4: for start <= end the reducer keeps exactly the rows of the file whose
\* Order Date parses to a timestamp d with start <= d <= end, in order: a row
\* at start or at end stays, a row a day outside goes, a row whose date does
\* not parse goes.
C4_InclusiveRange ==
    (Reduced /\ date1 <= date2) =>
        df = SelectSeq(file, LAMBDA r : /\ r["Order Date"] >= 0
                                        /\ date1 <= r["Order Date"]
                                        /\ r["Order Date"] <= date2)

\* C4's case: one row dated exactly at end is kept, one dated the day after is
\* dropped
C4_Witness ==
    /\ pc = "region"
    /\ Len(df) = 1 /\ df[1]["Order Date"] = date2
    /\ \E i \in DOMAIN file : file[i]["Order Date"] = NextDay(date2)

\* C5: with start > end the run stops at the range check with the warning
\* shown; date1 and date2 stay as entered, and no candidate list, filtered
\* frame or view is produced.  The warning is shown in no other case.
C5_InvalidRangeStops ==
    /\ (pc \notin {"load", "validate", "clean", "dates", "range"} /\ date1 > date2)
          => /\ pc = "stopped"
             /\ alert = [kind |-> "warning", cols |-> <<>>]
             /\ regionOptions = <<>> /\ stateOptions = <<>> /\ cityOptions = <<>>
             /\ filtered_df = <<>>
             /\ category_df = <<>> /\ region_sum = <<>> /\ linechart = <<>>
    /\ alert.kind = "warning" => (pc = "stopped" /\ date1 > date2)

\* C5's case: a run stopped by the range check, with rows in the frame
C5_Witness ==
    /\ pc = "stopped"
    /\ alert.kind = "warning"
    /\ date1 > date2
    /\ df # <<>>

\* C6: when a required column is absent the run stops at validation with an
\* error naming exactly the absent required columns, each once, and nothing
\* after validation has run; when none is absent no such error is shown.
C6_MissingColumns ==
    pc \notin {"load", "validate"} =>
        IF required_cols \ cols # {}
        THEN /\ pc = "stopped"
             /\ alert.kind = "error"
             /\ SeqToSet(alert.cols) = required_cols \ cols
             /\ Len(alert.cols) = Cardinality(required_cols \ cols)
             /\ startdate = NaT /\ date1 = NaT /\ date2 = NaT
             /\ regionOptions = <<>> /\ filtered_df = <<>>
             /\ category_df = <<>> /\ region_sum = <<>> /\ linechart = <<>>
        ELSE alert.kind # "error"

\* C6's case: only Sales is absent (an extra column is present) and the error
\* names exactly Sales
C6_Witness ==
    /\ pc = "stopped"
    /\ cols = AllCols \ {"Sales"}
    /\ alert = [kind |-> "error", cols |-> <<"Sales">>]

\* C10: with both date inputs left at their defaults the reducer keeps every
\* row whose Order Date parses.
C10_DefaultsKeepAll ==
    (/\ Reduced
     /\ startdate # NaT
     /\ date1 = DayOf(startdate)
     /\ date2 = DayOf(enddate))
    => df = SelectSeq(file, LAMBDA r : r["Order Date"] >= 0)

-----------------------------------------------------------------------------
(* Claims about the Aggregator, checked under SpecSales *)

RECURSIVE SumView(_)
SumView(view) == IF view = <<>> THEN 0 ELSE Head(view).Sales + SumView(Tail(view))

\* C2: the time-series view lists its entries in the order of their (year,
\* month): of two entries, the one listed first belongs to the earlier month.
C2_Chronological ==
    pc = "done" =>
        \A i, j \in DOMAIN linechart :
            i < j =>
                \A a, b \in DOMAIN filtered_df :
                    LET p == filtered_df[a]["month_year"]
                        q == filtered_df[b]["month_year"]
                    IN  (Strftime(p) = linechart[i].Month /\
                         Strftime(q) = linechart[j].Month)
                        => (p.year < q.year \/
                            (p.year = q.year /\ p.month < q.month))

\* C3: the sums of each view add up to the total Sales of the filtered frame.
C3_Conservation ==
    pc = "done" =>
        /\ SumView(category_df) = SumSales(filtered_df)
        /\ SumView(region_sum) = SumSales(filtered_df)
        /\ SumView(linechart) = SumSales(filtered_df)

\* C8: each view has exactly one entry for each value of its grouping column
\* that occurs in the filtered frame (a missing cell is not a value), and none
\* for a value that does not occur; the time-series view has exactly one entry
\* for each (year, month) that occurs; an empty filtered frame gives three empty
\* views.
C8_OneEntryPerKey ==
    pc = "done" =>
        LET cats == {filtered_df[i]["Category"] : i \in DOMAIN filtered_df} \ {NaN}
            regs == {filtered_df[i]["Region"] : i \in DOMAIN filtered_df} \ {NaN}
            months == {<<TsYear(filtered_df[i]["Order Date"]),
                         TsMonth(filtered_df[i]["Order Date"])>> :
                          i \in DOMAIN filtered_df}
        IN  /\ {category_df[k].key : k \in DOMAIN category_df} = cats
            /\ Len(category_df) = Cardinality(cats)
            /\ {region_sum[k].key : k \in DOMAIN region_sum} = regs
            /\ Len(region_sum) = Cardinality(regs)
            /\ Len(linechart) = Cardinality(months)
            /\ \A ym \in months :
                  Cardinality({k \in DOMAIN linechart :
                      linechart[k].Month =
                          YearDigits(ym[1]) \o <<45>> \o MonthAbbr[ym[2]]}) = 1
            /\ filtered_df = <<>> =>
                  (category_df = <<>> /\ region_sum = <<>> /\ linechart = <<>>)

\* C8's case: two rows of one category in the same month of different years:
\* one Category entry, two time-series entries
C8_Witness ==
    /\ pc = "done"
    /\ Len(filtered_df) = 2
    /\ Len(category_df) = 1
    /\ Len(linechart) = 2
    /\ filtered_df[1]["month_year"].month = filtered_df[2]["month_year"].month

====
